---- MODULE Spec2Model ----
(***************************************************************************)
(* A model of src/src/connection-pool.js: the Pool closure's state, its    *)
(* public operations (acquire, release, destroy, drain, destroyAllNow),    *)
(* its private helpers (dispense, createResource, ensureMinimum,           *)
(* removeIdle, scheduleRemoveIdle) and the callbacks the pool hands to the *)
(* runtime (the factory's create callback, the reaper timer, the deferred  *)
(* dispense of process.nextTick, drain's poll).                            *)
(*                                                                         *)
(* Values.  Every JavaScript object the pool sees is an identity 1..MaxId, *)
(* allocated in order: a connection made by the factory ("resource"), an   *)
(* entry {connection, timeout} made by release ("entry"), the Error of a   *)
(* failed creation ("error") or the connection the factory passes with     *)
(* that Error ("failed").  Null is the null or absent connection of an     *)
(* Error passed alone.  dispense hands the entry object                    *)
(* it found (not entry.connection) to the consumer, so a consumer may hold *)
(* an entry and release it again, which wraps it in a further entry.       *)
(*                                                                         *)
(* Time.  An entry's deadline is its release time plus a constant, so      *)
(* deadlines pass in the order entries were made.  The reaper is the only  *)
(* reader of the clock and reads it once for every entry it looks at;      *)
(* expiredUpTo is the largest entry identity whose deadline had passed at  *)
(* its last reading.                                                       *)
(*                                                                         *)
(* options.validate is the caller's: invalid holds the values it has       *)
(* rejected when dispense (its only caller) asked; a value once rejected   *)
(* stays rejected, and any value dispense asks about may be rejected, the  *)
(* ones made in the same handler run included.                             *)
(*                                                                         *)
(* The factory is asynchronous (README, Step 1): create's callback runs in *)
(* a later turn of the event loop than the createResource that asked.      *)
(* A consumer's sink runs synchronously inside the pool and may react at   *)
(* once by releasing or destroying what it was given (README, Step 2);     *)
(* every sink is a function of its own, with its own reaction.             *)
(***************************************************************************)
EXTENDS Integers, Sequences, FiniteSets, TLC

\* ------------------------------------------------------------- bounds
MaxId == 4
MaxRequests == 2
MaxDestroys == 2
MaxFairRequests == 3

\* ------------------------------------------------- program constants
Null == 0
PriorityRange == 10

\* the option values pools are built with, and the priorities asked for
MaxChoices == {1, 2}
MinChoices == {0, 1, 2}
Priorities == {0, 1}
Shapes == {"observer", "function"}
Reactions == {"hold", "release", "destroy"}

VARIABLES
  options,               \* the options record (lines 5-15)
  availableConnections,  \* sequence of entries [id, connection]
  waitingClients,        \* the priority queue: the sinks and their priority
  totalConnections,
  removeIdleScheduled,
  removeIdleTimer,       \* outstanding reaper timers (setTimeout, line 222)
  draining,
  creating,              \* factory create calls whose callback has not run
  nextTicks,             \* deferred dispenses (process.nextTick, line 285)
  drainChecks,           \* outstanding polls of drain's check (lines 110, 112)
  drainCompleted,        \* signals given to drain observers
  requests,              \* per acquire call: the sink and what it received
  objs,                  \* the identities allocated so far
  invalid,               \* the values the validate option rejects
  expiredUpTo,           \* entries with id <= expiredUpTo are past deadline
  destroyed              \* value -> times passed to clientFactory.destroy

vars == <<options, availableConnections, waitingClients, totalConnections,
          removeIdleScheduled, removeIdleTimer, draining, creating, nextTicks,
          drainChecks, drainCompleted, requests, objs, invalid, expiredUpTo,
          destroyed>>

Ids == 1 .. MaxId
Values == 0 .. MaxId
RequestIds == DOMAIN requests

Min2(a, b) == IF a < b THEN a ELSE b
Max2(a, b) == IF a > b THEN a ELSE b

\* ---------------------------------------------------- the pool state
\* The part of the state the pool's functions read and write, as one value
\* that the functions below transform.  asked: the values options.validate
\* has been called with in this run; called: the sinks given a value in
\* this run; threw: an exception is unwinding the handler; overflow: the
\* run needed an identity beyond MaxId.
St ==
  [ options |-> options,
    availableConnections |-> availableConnections,
    waitingClients |-> waitingClients,
    totalConnections |-> totalConnections,
    removeIdleScheduled |-> removeIdleScheduled,
    removeIdleTimer |-> removeIdleTimer,
    draining |-> draining,
    creating |-> creating,
    nextTicks |-> nextTicks,
    requests |-> requests,
    objs |-> objs,
    invalid |-> invalid,
    destroyed |-> destroyed,
    asked |-> {},
    called |-> {},
    threw |-> FALSE,
    overflow |-> FALSE ]

\* F of the value of x, with x computed once: the functions below use the
\* state they are given many times over
Bind(x, F(_)) == CHOOSE r \in {F(y) : y \in {x}} : TRUE

Commit(s) ==
  /\ availableConnections' = s.availableConnections
  /\ waitingClients' = s.waitingClients
  /\ totalConnections' = s.totalConnections
  /\ removeIdleScheduled' = s.removeIdleScheduled
  /\ removeIdleTimer' = s.removeIdleTimer
  /\ draining' = s.draining
  /\ creating' = s.creating
  /\ nextTicks' = s.nextTicks
  /\ requests' = s.requests
  /\ objs' = s.objs
  /\ destroyed' = s.destroyed
  /\ invalid' = s.invalid

\* the model's bounds: no identity beyond MaxId, no more than MaxDestroys
\* calls of clientFactory.destroy
RECURSIVE Sum(_, _)
Sum(f, n) == IF n < 0 THEN 0 ELSE f[n] + Sum(f, n - 1)

Within(s) == ~s.overflow /\ Sum(s.destroyed, MaxId) <= MaxDestroys

\* the step that leaves the pool as the handler left it; validate has
\* newly rejected only values it was called with
Run(x) ==
  \E s \in {x} :
    /\ Within(s)
    /\ (s.invalid \ invalid) \subseteq s.asked
    /\ Commit(s)

Allocated(o) == {i \in Ids : o[i] # "free"}
FreshId(o) == Cardinality(Allocated(o)) + 1

\* ------------------------------------------------------ priority queue
\* mangabi-datastructures' PriorityQueue is not part of the sources: it is
\* modelled as the spec describes the Wait Queue (ordered by priority,
\* FIFO within a priority), with the comparator the pool installs.
priorityComparator(e1, e2) ==
  IF e1.priority = 0 /\ e2.priority = 0 THEN 0
  ELSE IF e1.priority # 0 /\ e2.priority = 0 THEN 0 - 1
  ELSE IF e2.priority # 0 /\ e1.priority = 0 THEN 1
  ELSE e2.priority - e1.priority

RECURSIVE InsertAt(_, _, _)
InsertAt(q, x, i) ==
  IF i > Len(q) THEN Append(q, x)
  ELSE IF priorityComparator(x, q[i]) > 0
       THEN SubSeq(q, 1, i - 1) \o <<x>> \o SubSeq(q, i, Len(q))
       ELSE InsertAt(q, x, i + 1)

\* observer: the sink (its request and the priority it asked for)
enqueue(q, observer, priority) ==
  InsertAt(q, [observer |-> observer, priority |-> priority], 1)

\* the priority acquire stores with the request (line 47)
storedPriority(priority) == Max2(Min2(priority, 0), PriorityRange)

\* --------------------------------------------------- private helpers
validate(s, connection) ==
  IF s.options.hasValidate THEN connection \notin s.invalid ELSE FALSE

\* createResource asking the factory without counting the connection
createResourceUncounted(s) == [s EXCEPT !.creating = @ + 1]

createResource(s) ==
  [s EXCEPT !.totalConnections = @ + 1, !.creating = @ + 1]

RECURSIVE times(_, _)
times(s, n) == IF n <= 0 THEN s ELSE times(createResource(s), n - 1)

\* ensureMinimum creating one connection fewer than the deficit
ensureMinimumShort(pool) ==
  Bind(pool, LAMBDA s :
    IF ~s.draining /\ s.totalConnections < s.options.min
    THEN times(s, s.options.min - s.totalConnections - 1)
    ELSE s)

ensureMinimum(pool) ==
  Bind(pool, LAMBDA s :
    IF ~s.draining /\ s.totalConnections < s.options.min
    THEN times(s, s.options.min - s.totalConnections)
    ELSE s)

\* _.remove(availableConnections, e => e === connection): the entry objects
\* themselves are compared with the value destroyed
removeEntry(av, connection) ==
  LET Keep(e) == e.id # connection IN SelectSeq(av, Keep)

destroy(s, connection) ==
  ensureMinimum(
    [s EXCEPT !.totalConnections = @ - 1,
              !.availableConnections = removeEntry(@, connection),
              !.destroyed[connection] = @ + 1])

\* scheduleRemoveIdle setting a timer whether or not one is scheduled
scheduleRemoveIdleAgain(pool) ==
  [pool EXCEPT !.removeIdleScheduled = TRUE, !.removeIdleTimer = @ + 1]

scheduleRemoveIdle(pool) ==
  Bind(pool, LAMBDA s :
    IF ~s.removeIdleScheduled
    THEN [s EXCEPT !.removeIdleScheduled = TRUE, !.removeIdleTimer = @ + 1]
    ELSE s)

\* an entry always put at the tail of the list
putBackAtTail(av, e, returnToHead) == Append(av, e)

\* where release puts the entry it made (lines 84-88)
putBack(av, e, returnToHead) ==
  IF returnToHead THEN <<e>> \o av ELSE Append(av, e)

\* the already-released check of release (line 76)
isAvailableEntry(s, connection) ==
  \E i \in 1 .. Len(s.availableConnections) :
     s.availableConnections[i].id = connection

isAvailable(s, connection) ==
  \E i \in 1 .. Len(s.availableConnections) :
     s.availableConnections[i].connection = connection

\* the create guard of dispense (line 258)
belowMaxOrAt(s) == s.totalConnections <= s.options.max

belowMax(s) == s.totalConnections < s.options.max

NoEntry == [id |-> Null, connection |-> Null]

\* _.find over availableConnections with dispense's predicate: the length is
\* read once, the array is read live, and an index past the live end yields
\* undefined, whose .connection throws
RECURSIVE find(_, _, _)
find(pool, index, length) ==
  Bind(pool, LAMBDA s :
    IF index > length THEN [s |-> s, found |-> FALSE, entry |-> NoEntry]
    ELSE IF index > Len(s.availableConnections)
    THEN [s |-> [s EXCEPT !.threw = TRUE], found |-> FALSE, entry |-> NoEntry]
    ELSE LET e == s.availableConnections[index]
             t == IF s.options.hasValidate
                  THEN [s EXCEPT !.asked = @ \cup {e.connection}]
                  ELSE s
         IN IF validate(t, e.connection)
            THEN [s |-> t, found |-> TRUE, entry |-> e]
            ELSE find(destroy(t, e.connection), index + 1, length))

Done == [state |-> "done", value |-> Null]

RECURSIVE dispense(_, _)
RECURSIVE release(_, _, _)

\* a sink receives value, and its consumer reacts inside the callback:
\* reacts gives the reaction of every sink
deliver(s, observer, value, reacts) ==
  LET got == [s EXCEPT !.requests[observer].state = "holding",
                       !.requests[observer].value = value,
                       !.called = @ \cup {observer}]
      gone == [got EXCEPT !.requests[observer] = Done]
  IN CASE reacts[observer] = "hold" -> got
       [] reacts[observer] = "release" -> release(gone, value, reacts)
       [] reacts[observer] = "destroy" -> destroy(gone, value)

handOut(f, reacts) ==
  IF f.found
  THEN deliver([f.s EXCEPT !.availableConnections = Tail(@),
                           !.waitingClients = Tail(@)],
               Head(f.s.waitingClients).observer.id, f.entry.id, reacts)
  ELSE f.s

dispense(pool, reacts) ==
  Bind(pool, LAMBDA s :
    IF s.threw \/ Len(s.waitingClients) = 0 THEN s
    ELSE Bind(find(s, 1, Len(s.availableConnections)), LAMBDA f :
           Bind(handOut(f, reacts), LAMBDA handed :
             IF f.s.threw \/ handed.threw THEN handed
             ELSE IF belowMax(handed) THEN createResource(handed)
             ELSE handed)))

release(pool, connection, reacts) ==
  Bind(pool, LAMBDA s :
    IF s.threw \/ isAvailable(s, connection) THEN s
    ELSE IF FreshId(s.objs) > MaxId THEN [s EXCEPT !.overflow = TRUE]
    ELSE LET id == FreshId(s.objs)
             e == [id |-> id, connection |-> connection]
             put == [s EXCEPT
                      !.objs[id] = "entry",
                      !.availableConnections =
                         putBack(@, e, s.options.returnToHead)]
         IN Bind(dispense(put, reacts), LAMBDA after :
              IF after.threw THEN after ELSE scheduleRemoveIdle(after)))


\* ----------------------------------------------------------- bookkeeping
NoRequest == [state |-> "unused", value |-> Null]

Used == {q \in RequestIds : requests[q].state # "unused"}
Holding == {q \in RequestIds : requests[q].state = "holding"}

InPool == {availableConnections[i].connection :
             i \in 1 .. Len(availableConnections)}
Entries == {availableConnections[i].id : i \in 1 .. Len(availableConnections)}

\* every sink keeps what it is given
NoReaction == [q \in RequestIds |-> "hold"]

\* ------------------------------------------------------------------ Init
\* new Pool(clientFactory, opts): lines 4-31
PoolOptions ==
  { [max |-> mx, min |-> Min2(mn, mx - 1), refreshIdle |-> ri,
     returnToHead |-> rh, hasValidate |-> hv] :
      mx \in MaxChoices, mn \in MinChoices, ri \in BOOLEAN, rh \in BOOLEAN,
      hv \in BOOLEAN }

Constructed(opts, budget) ==
  /\ options \in opts
  /\ availableConnections = <<>>
  /\ waitingClients = <<>>
  /\ totalConnections = options.min
  /\ creating = options.min
  /\ removeIdleScheduled = FALSE
  /\ removeIdleTimer = 0
  /\ draining = FALSE
  /\ nextTicks = 0
  /\ drainChecks = 0
  /\ drainCompleted = 0
  /\ requests = [q \in 1 .. budget |-> NoRequest]
  /\ objs = [i \in Ids |-> "free"]
  /\ invalid = {}
  /\ expiredUpTo = 0
  /\ destroyed = [v \in Values |-> 0]

Init == Constructed(PoolOptions, MaxRequests)

\* --------------------------------------------------------------- actions
\* acquire(observer, priority): lines 43-50
\* observer.onError(...) of a draining pool: a function has no onError, and
\* calling it throws a TypeError
acquireDraining(s, observer, shape) ==
  IF shape = "observer"
  THEN [s EXCEPT !.requests[observer.id].state = "rejected"]
  ELSE [s EXCEPT !.requests[observer.id].state = "threw", !.threw = TRUE]

acquire(s, observer, shape, priority, reacts) ==
  IF s.draining THEN acquireDraining(s, observer, shape)
  ELSE dispense(
         [s EXCEPT !.requests[observer.id].state = "waiting",
                   !.waitingClients =
                      enqueue(@, observer, storedPriority(priority))],
         reacts)

\* the callback createResource gives to clientFactory.create: lines 266-301
dequeued(s) ==
  IF Len(s.waitingClients) > 0
  THEN [s EXCEPT !.waitingClients = Tail(@)]
  ELSE s

created(pool, connection, reacts) ==
  Bind(pool, LAMBDA s :
    IF Len(s.waitingClients) > 0
    THEN deliver(dequeued(s), Head(s.waitingClients).observer.id, connection,
                 reacts)
    ELSE release(s, connection, reacts))

\* the callback called with an Error and connection, the second argument
\* (null or absent: Null)
failed(pool, connection, reacts) ==
  Bind(pool, LAMBDA s :
    LET t == [dequeued(s) EXCEPT
                !.totalConnections = IF @ - 1 < 0 THEN 0 ELSE @ - 1,
                !.nextTicks = @ + 1]
    IN IF Len(s.waitingClients) > 0
       THEN [t EXCEPT !.requests[Head(s.waitingClients).observer.id].state =
                         "error"]
       ELSE release(t, connection, reacts))

\* One run of a handler that calls the caller's functions, options.validate
\* and the sinks: what the run does depends on what they do.  call names
\* the handler and its arguments; reacts gives the reaction of every sink;
\* rejected are the values validate newly rejects.
handle(call, reacts, rejected) ==
  LET s == [St EXCEPT !.invalid = @ \cup rejected]
  IN CASE call.op = "acquire" ->
            acquire(s, call.observer, call.shape, call.priority, reacts)
       [] call.op = "release" ->
            release([s EXCEPT !.requests[call.q] = Done], call.connection,
                    reacts)
       [] call.op = "release again" ->
            release(s, call.connection, reacts)
       [] call.op = "created" ->
            created([s EXCEPT !.creating = @ - 1,
                              !.objs[call.connection] = "resource"],
                    call.connection, reacts)
       [] call.op = "dispense" ->
            dispense([s EXCEPT !.nextTicks = @ - 1], reacts)

\* The runs of call for every way validate may answer and the sinks may
\* react.  A run asks validate about some values not yet decided and calls
\* at most one sink whose reaction is not yet decided (a sink that holds or
\* destroys ends the chain of calls; one that releases runs dispense, which
\* may call the next).  With those values accepted and that sink holding it
\* is this run; for every choice of some of the values rejected, and for
\* the sink destroying or releasing, there are the runs that go on from
\* there (what is never asked or called makes no difference).
RECURSIVE outcomes(_, _, _, _, _)
outcomes(call, reacts, reacted, rejected, decided) ==
  Bind(handle(call, reacts, rejected), LAMBDA s :
    LET new == s.asked \ (decided \cup invalid)
    IN {s}
       \cup UNION {outcomes(call, reacts, reacted, rejected \cup more,
                            decided \cup new) :
                     more \in (SUBSET new) \ {{}}}
       \cup UNION {outcomes(call, [reacts EXCEPT ![q] = reaction],
                            reacted \cup {q}, rejected, decided \cup new) :
                     q \in s.called \ reacted,
                     reaction \in Reactions \ {"hold"}})

Runs(call) == outcomes(call, NoReaction, {}, {}, {})

\* pool.acquire(observer, priority): lines 43-50
Acquire ==
  \E shape \in Shapes, priority \in Priorities :
    /\ Cardinality(Used) < Cardinality(RequestIds)
    /\ ~draining => shape = "observer"  \* read by acquireDraining only
    /\ LET q == Cardinality(Used) + 1
           observer == [id |-> q, asked |-> priority]
       IN \E s \in Runs([op |-> "acquire", observer |-> observer,
                          shape |-> shape, priority |-> priority]) : Run(s)
    /\ UNCHANGED <<options, drainChecks, drainCompleted, expiredUpTo>>

\* pool.release(connection) by the consumer that holds it: lines 74-92
Release ==
  \E q \in Holding :
    /\ \E s \in Runs([op |-> "release", q |-> q,
                       connection |-> requests[q].value]) : Run(s)
    /\ UNCHANGED <<options, drainChecks, drainCompleted, expiredUpTo>>

\* pool.destroy(connection) by the consumer that holds it: lines 61-66
Destroy ==
  \E q \in Holding :
    /\ LET v == requests[q].value
       IN Run(destroy([St EXCEPT !.requests[q] = Done], v))
    /\ UNCHANGED <<options, drainChecks, drainCompleted, expiredUpTo>>

\* the factory calls back with a connection
CreateSucceed ==
  /\ creating > 0
  /\ FreshId(objs) <= MaxId
  /\ \E s \in Runs([op |-> "created", connection |-> FreshId(objs)]) : Run(s)
  /\ UNCHANGED <<options, drainChecks, drainCompleted, expiredUpTo>>

\* the factory reports an Error, alone (callback(err)) or with the
\* connection it could not set up (callback(err, connection): README,
\* Step 1); the pool reads the connection only when no request waits
CreateFail ==
  \E withConnection \in BOOLEAN :
    /\ creating > 0
    /\ FreshId(objs) + (IF withConnection THEN 1 ELSE 0) <= MaxId
    /\ withConnection => Len(waitingClients) = 0
    /\ LET err == FreshId(objs)
           connection == IF withConnection THEN err + 1 ELSE Null
           o == IF withConnection
                THEN [objs EXCEPT ![err] = "error", ![err + 1] = "failed"]
                ELSE [objs EXCEPT ![err] = "error"]
       IN Run(failed([St EXCEPT !.creating = @ - 1, !.objs = o],
                     connection, NoReaction))
    /\ UNCHANGED <<options, drainChecks, drainCompleted, expiredUpTo>>

\* process.nextTick(() => dispense()): line 285
NextTick ==
  /\ nextTicks > 0
  /\ \E s \in Runs([op |-> "dispense"]) : Run(s)
  /\ UNCHANGED <<options, drainChecks, drainCompleted, expiredUpTo>>

\* removeIdle(), run by the reaper's timer: lines 198-212
RECURSIVE destroyEach(_, _)
destroyEach(s, connections) ==
  IF connections = <<>> THEN s
  ELSE destroyEach(destroy(s, Head(connections)), Tail(connections))

\* Date.now() > connectionWithTimeout.timeout, with the clock at now
timedOut(e, now) == e.id <= now

\* the filter of removeIdle: the connections to destroy; nows[i] is what
\* Date.now() reads when the filter is at the i-th entry (line 204)
RECURSIVE idle(_, _, _)
idle(s, index, nows) ==
  IF index > Len(s.availableConnections) THEN <<>>
  ELSE LET e == s.availableConnections[index]
           rest == idle(s, index + 1, nows)
       IN IF (s.totalConnections - s.options.min) < index - 1 THEN rest
          ELSE IF timedOut(e, nows[index]) THEN <<e.connection>> \o rest
          ELSE rest

removeIdle(s, nows) ==
  LET t == [s EXCEPT !.removeIdleScheduled = FALSE, !.removeIdleTimer = @ - 1]
  IN IF ~t.options.refreshIdle THEN t
     ELSE LET u == destroyEach(t, idle(t, 1, nows))
          IN IF Len(u.availableConnections) > 0 THEN scheduleRemoveIdle(u)
             ELSE u

\* the clock never runs backwards: it is where the last sweep read it, or it
\* has passed the deadline of a further available entry
Clock ==
  IF options.refreshIdle
  THEN {expiredUpTo} \cup {i \in Entries : i > expiredUpTo}
  ELSE {expiredUpTo}

\* the readings of one sweep, one for each entry, in the order they are
\* made: n readings, none before from
RECURSIVE readings(_, _)
readings(n, from) ==
  IF n = 0 THEN {<<>>}
  ELSE UNION {{<<now>> \o rest : rest \in readings(n - 1, now)} :
                now \in {c \in Clock : c >= from}}

Readings == readings(Len(availableConnections), expiredUpTo)

RemoveIdle ==
  /\ removeIdleTimer > 0
  /\ \E nows \in Readings :
       /\ expiredUpTo' = IF Len(availableConnections) = 0 THEN expiredUpTo
                         ELSE nows[Len(availableConnections)]
       /\ Run(removeIdle(St, nows))
  /\ UNCHANGED <<options, drainChecks, drainCompleted>>

\* drain(observer) and its check(): lines 105-122; called once (README,
\* Step 3)
quiescent ==
  ~(Len(waitingClients) > 0) /\ ~(Len(availableConnections) # totalConnections)

Drain ==
  /\ ~draining
  /\ draining' = TRUE
  /\ IF quiescent
     THEN drainCompleted' = drainCompleted + 1 /\ UNCHANGED drainChecks
     ELSE drainChecks' = drainChecks + 1 /\ UNCHANGED drainCompleted
  /\ UNCHANGED <<options, availableConnections, waitingClients,
                 totalConnections, removeIdleScheduled, removeIdleTimer,
                 creating, nextTicks, requests, objs, invalid, expiredUpTo,
                 destroyed>>

DrainCheck ==
  /\ drainChecks > 0
  /\ quiescent
  /\ drainChecks' = drainChecks - 1
  /\ drainCompleted' = drainCompleted + 1
  /\ UNCHANGED <<options, availableConnections, waitingClients,
                 totalConnections, removeIdleScheduled, removeIdleTimer,
                 draining, creating, nextTicks, requests, objs, invalid,
                 expiredUpTo, destroyed>>

\* destroyAllNow(observer): lines 137-149.  The predicate given to _.remove
\* calls connectionWithT, which is not defined: with an entry to visit it
\* throws a ReferenceError before destroy is reached.
destroyAllNow(s) ==
  IF Len(s.availableConnections) > 0 THEN [s EXCEPT !.threw = TRUE]
  ELSE [s EXCEPT !.removeIdleScheduled = FALSE, !.removeIdleTimer = 0]

DestroyAllNow ==
  /\ LET s == destroyAllNow(St)
     IN Commit(s)
  /\ UNCHANGED <<options, drainChecks, drainCompleted, expiredUpTo>>

Next ==
  \/ Acquire
  \/ Release
  \/ Destroy
  \/ CreateSucceed
  \/ CreateFail
  \/ NextTick
  \/ RemoveIdle
  \/ Drain
  \/ DrainCheck
  \/ DestroyAllNow

Spec == Init /\ [][Next]_vars


\* a consumer that has given its value back calls pool.release again,
\* with a connection that is in availableConnections: lines 74-92
ReleaseAgain ==
  /\ \E q \in RequestIds : requests[q].state = "done"
  /\ \E v \in InPool :
       \E s \in Runs([op |-> "release again", connection |-> v]) : Run(s)
  /\ UNCHANGED <<options, drainChecks, drainCompleted, expiredUpTo>>

NextAnyRelease ==
  \/ Next
  \/ ReleaseAgain

SpecAnyRelease == Init /\ [][NextAnyRelease]_vars

\* The pools of one connection: max 1 (so min 0, line 15), a validate
\* function, returnToHead not given (false, line 9), and refreshIdle not
\* given (true, line 8) or given as true or false.
PlainOptions ==
  {o \in PoolOptions : /\ o.max = 1
                       /\ o.hasValidate
                       /\ ~o.returnToHead}

\* Such a pool and MaxFairRequests requests, with what the runtime and the
\* callers guarantee: a create callback is called and in the end with a
\* connection, a nextTick callback runs, a consumer gives back what it
\* holds (by release or by destroy).

InitFair == Constructed(PlainOptions, MaxFairRequests)

FairSpec ==
  /\ InitFair
  /\ [][Next]_vars
  /\ WF_vars(CreateSucceed)
  /\ WF_vars(NextTick)
  /\ WF_vars(Release)

\* The same pool with, besides, the runtime's timers firing: drain's poll
\* (setTimeout(check, 100)) and the reaper's timer.
FairDrainSpec ==
  /\ InitFair
  /\ [][Next]_vars
  /\ WF_vars(CreateSucceed)
  /\ WF_vars(NextTick)
  /\ WF_vars(Release)
  /\ WF_vars(RemoveIdle)
  /\ WF_vars(DrainCheck)

\* ----------------------------------------------------------------- claims
\* the steps of the handlers, as the state shows them
Acquired == Cardinality(Used') = Cardinality(Used) + 1
NewRequest == Cardinality(Used) + 1
CreateFailed == nextTicks' = nextTicks + 1
Waiting == {waitingClients[i].observer : i \in 1 .. Len(waitingClients)}

\* C1: in every reachable state totalConnections is at most options.max.
C1_TotalAtMostMax == totalConnections <= options.max

C1_Witness ==
  /\ totalConnections = options.max
  /\ Len(waitingClients) > 0
  /\ Holding # {}

\* C2: a value held by a consumer is not in availableConnections (neither
\* an entry of it nor the connection of one) and no second request holds it.
C2_ExclusiveOwnership ==
  \A q \in Holding :
    /\ requests[q].value \notin Entries
    /\ requests[q].value \notin InPool
    /\ \A p \in Holding : requests[p].value = requests[q].value => p = q

\* C3: in a pool made without options.validate, an acquire that finds an
\* available connection (and nobody waiting) is served at once, and no
\* connection that stays available is passed to clientFactory.destroy.
C3_DefaultValidateAccepts ==
  [][(~options.hasValidate /\ ~draining /\ Acquired
        /\ Len(availableConnections) > 0 /\ Len(waitingClients) = 0)
     => /\ requests'[NewRequest].state # "waiting"
        /\ \A i \in 1 .. Len(availableConnections') :
              LET v == availableConnections'[i].connection
              IN destroyed'[v] = destroyed[v]]_vars

\* C4: a request leaves the Wait Queue only ahead of those that stay: it
\* asked for a lower priority number than each of them or, with the same
\* number, arrived earlier.
C4_PriorityOrder ==
  [][\A a \in Waiting, b \in Waiting :
        (a \notin Waiting' /\ b \in Waiting')
        => \/ a.asked < b.asked
           \/ a.asked = b.asked /\ a.id < b.id]_vars

\* C5: once draining, the pool stays draining, and an acquire delivers the
\* draining error to its sink, whatever the sink's shape, and changes no
\* count, list or queue.
C5_DrainingRejects ==
  [][draining
     => /\ draining'
        /\ Acquired
           => /\ requests'[NewRequest].state = "rejected"
              /\ UNCHANGED <<totalConnections, availableConnections,
                             waitingClients, creating>>]_vars

\* C6: a failed creation with a request pending gives the error to the head
\* of the Wait Queue alone, gives it no value, and takes back the count the
\* attempt added.
C6_FailureGoesToHead ==
  [][(CreateFailed /\ Len(waitingClients) > 0)
     => LET q == Head(waitingClients).observer.id
        IN /\ requests'[q] = [state |-> "error", value |-> Null]
           /\ \A p \in RequestIds \ {q} : requests'[p] = requests[p]
           /\ waitingClients' = Tail(waitingClients)
           /\ totalConnections' = totalConnections - 1]_vars

\* C7: a failed creation with no request pending takes back the count the
\* attempt added and changes nothing else: no entry is added, the reaper is
\* not armed, no sink is signalled.
C7_FailureAbsorbed ==
  [][(CreateFailed /\ Len(waitingClients) = 0)
     => /\ totalConnections' = totalConnections - 1
        /\ UNCHANGED <<availableConnections, removeIdleScheduled,
                       removeIdleTimer, requests>>]_vars

\* the run has used up the identities or the destroy calls of the bounds
OutOfBudget ==
  \/ FreshId(objs) > MaxId
  \/ Sum(destroyed, MaxId) >= MaxDestroys

\* C8: a request still queued when a creation has failed (its deferred
\* dispense pending) receives an outcome, a value or an error, as long as
\* the identities and the destroy calls of the bounds last.
C8_NoStarvation ==
  \A q \in 1 .. MaxFairRequests :
    (requests[q].state = "waiting" /\ nextTicks > 0)
      ~> (requests[q].state # "waiting" \/ OutOfBudget)

\* no two entries of availableConnections have the same connection
NoDuplicate ==
  \A i, j \in 1 .. Len(availableConnections) :
     availableConnections[i].connection = availableConnections[j].connection
     => i = j

\* C9: no two entries of availableConnections have the same connection, and
\* release of a connection that is in availableConnections leaves the pool
\* as it is: no entry added, no dispense, no timer set.
C9_DoubleReleaseIgnored ==
  /\ NoDuplicate
  /\ \A v \in InPool :
        Runs([op |-> "release again", connection |-> v]) = {St}

C9_Witness ==
  /\ \E q \in RequestIds : requests[q].state = "done"
  /\ InPool \ {Null} # {}
  /\ Len(waitingClients) > 0

\* C10: with consumers that release or destroy only what they hold,
\* 0 <= availableConnections.length <= totalConnections, and no connection
\* passed to clientFactory.destroy is in availableConnections.
C10_AvailableWithinTotal ==
  /\ 0 <= totalConnections
  /\ Len(availableConnections) <= totalConnections
  /\ \A v \in InPool : destroyed[v] = 0

\* the calls of clientFactory.destroy a step makes
Destroys == Sum(destroyed', MaxId) - Sum(destroyed, MaxId)

\* the entries whose deadline has passed when the clock reads now, among the
\* first n of availableConnections
Overdue(n, now) ==
  {i \in 1 .. n : i <= Len(availableConnections)
                    /\ timedOut(availableConnections[i], now)}

\* C11: with refreshIdle, a sweep of the reaper destroys no more connections
\* than totalConnections has above options.min, and it destroys every
\* available connection already overdue when the sweep starts that this
\* floor allows (counting all that are overdue when it ends).
C11_IdleEvictionFloor ==
  [][(options.refreshIdle /\ RemoveIdle)
     => /\ Destroys <= Max2(totalConnections - options.min, 0)
        /\ \A i \in 1 .. Len(availableConnections) :
              LET e == availableConnections[i]
              IN (/\ timedOut(e, expiredUpTo)
                  /\ totalConnections
                       - Cardinality(Overdue(i, expiredUpTo')) >= options.min)
                 => destroyed'[e.connection] > destroyed[e.connection]]_vars

\* C12: totalConnections is at options.min as soon as the pool is built (so
\* in every behaviour it reaches it), and in a pool that is not draining
\* every step that destroys a connection ends with totalConnections at
\* options.min or above, and a consumer's destroy starts exactly as many
\* creations as the count is then short of options.min.
C12_ReplenishConverges ==
  /\ totalConnections >= options.min
  /\ [][(~draining' /\ Destroys > 0)
        => totalConnections' >= options.min]_vars
  /\ [][~draining
        => \/ creating' - creating
               = Max2(options.min - (totalConnections - 1), 0)
           \/ ~Destroy]_vars

C12_Witness ==
  /\ ~draining
  /\ options.min > 0
  /\ Sum(destroyed, MaxId) > 0
  /\ Len(waitingClients) = 0
  /\ \E i \in Ids : objs[i] = "resource"
  /\ creating > 0
  /\ totalConnections = options.min

\* a consumer gives back what it holds or a create callback runs
Trigger == Release \/ Destroy \/ CreateSucceed \/ CreateFail

\* C13: with totalConnections at options.max and availableConnections
\* empty, an acquire is queued without a creation, and a queued request
\* stays queued, with neither value nor error, unless the step is a
\* release, a destroy or the completion of a creation.
C13_QueuedAtMax ==
  [][(totalConnections = options.max /\ Len(availableConnections) = 0)
     => /\ (Acquired /\ ~draining)
           => /\ requests'[NewRequest].state = "waiting"
              /\ UNCHANGED <<totalConnections, creating>>
        /\ \A q \in RequestIds :
              (requests[q].state = "waiting"
                 /\ requests'[q].state # "waiting") => Trigger]_vars

C13_Witness ==
  /\ options.max = 1
  /\ totalConnections = 1
  /\ creating = 0
  /\ Len(availableConnections) = 0
  /\ Cardinality(Holding) = 1
  /\ Len(waitingClients) = 1

\* C14: in a pool built with min = 0 that nobody has drained, as long as no
\* create callback has run (no identity exists yet, so nothing was released
\* either), the k acquire calls made so far have started exactly
\* min(k, max) creations, all of them counted and in flight.
C14_CreationsPerAcquire ==
  (options.min = 0 /\ ~draining /\ Allocated(objs) = {})
     => /\ creating = Min2(Cardinality(Used), options.max)
        /\ totalConnections = creating

C14_Witness ==
  /\ options.min = 0 /\ options.max = 2 /\ ~draining
  /\ Allocated(objs) = {}
  /\ Cardinality(Used) = 2 /\ creating = 2

\* every counted connection is in the list: none checked out, none in creation
AllIdle ==
  /\ Len(availableConnections) = totalConnections
  /\ creating = 0
  /\ Holding = {}

\* C15: in a pool with min = 0 whose n >= 1 connections are all available,
\* a call of destroyAllNow returns normally, having passed every one of
\* them to clientFactory.destroy, and leaves the list empty, the count at 0,
\* the reaper unscheduled and its timer cleared, and draining as it was.
C15_DestroyAllNowCompletes ==
  (options.min = 0 /\ Len(availableConnections) >= 1 /\ AllIdle)
     => LET s == destroyAllNow(St)
        IN /\ ~s.threw
           /\ \A v \in InPool : s.destroyed[v] > destroyed[v]
           /\ s.availableConnections = <<>>
           /\ s.totalConnections = 0
           /\ ~s.removeIdleScheduled /\ s.removeIdleTimer = 0
           /\ s.draining = draining

\* drain's observer is signalled by this step
DrainSignalled == drainCompleted' > drainCompleted

\* C16: drain's observer is signalled only in a state with no waiting client
\* and as many available entries as counted connections, and in such a
\* state no consumer holds a value and no creation is in flight.
C16_DrainSignalsWhenIdle ==
  [][DrainSignalled
       => /\ Len(waitingClients) = 0
          /\ Len(availableConnections) = totalConnections
          /\ Holding = {}
          /\ creating = 0]_vars

\* C17: once the pool is draining no step raises totalConnections, that is,
\* no step calls createResource.
C17_NoCreationWhileDraining ==
  [][draining => totalConnections' <= totalConnections]_vars

\* what a consumer holding value has checked out: the value it was given
\* and, the value being an entry that is still listed, the entry's connection
CheckedOut(value) ==
  {value} \cup {availableConnections[i].connection :
                  i \in {j \in 1 .. Len(availableConnections) :
                           availableConnections[j].id = value}}

\* C18: a step in which no consumer calls destroy passes nothing to
\* clientFactory.destroy that a consumer holds before and after the step.
C18_CheckedOutNotDestroyed ==
  [][~Destroy
       => \A q \in Holding :
             requests'[q] = requests[q]
               => \A v \in CheckedOut(requests[q].value) :
                     destroyed'[v] = destroyed[v]]_vars

\* the request that this step, changing no other request, leaves holding an
\* entry taken from the list
HandedFromList(q) ==
  /\ requests[q].state # "holding"
  /\ requests'[q].state = "holding"
  /\ requests'[q].value \in Entries
  /\ \A p \in RequestIds \ {q} : requests'[p] = requests[p]

\* C19: with a validate function that accepts every value, the entry handed
\* out is, of the entries listed, the one released first when returnToHead
\* is false and the one released last when it is true (entries are numbered
\* in the order release made them).
C19_ReleaseDiscipline ==
  [][(options.hasValidate /\ invalid' = {})
       => \A q \in RequestIds :
             HandedFromList(q)
               => \A e \in Entries :
                     IF options.returnToHead THEN e <= requests'[q].value
                     ELSE e >= requests'[q].value]_vars

\* with returnToHead, a consumer holds an entry made after one that has been
\* listed ever since
C19_Witness ==
  /\ options.hasValidate /\ invalid = {}
  /\ options.returnToHead
  /\ \E q \in Holding, e \in Entries :
        /\ objs[requests[q].value] = "entry"
        /\ e < requests[q].value
        /\ destroyed[requests[q].value] = 0

\* C20: when a consumer destroys what it holds while a request waits with
\* totalConnections at options.max in a pool nobody drains, the destroy
\* starts a creation for the request.
C20_DispenseAfterDestroy ==
  [][(/\ Destroy
      /\ ~draining
      /\ Len(waitingClients) > 0
      /\ totalConnections = options.max)
       => creating' > creating]_vars

\* C21: an acquire whose dispense hands a listed entry to a request, and
\* destroys nothing on the way (so ensureMinimum creates nothing), starts no
\* creation.
C21_NoCreationWhenHanded ==
  [][(/\ Acquire
      /\ Destroys = 0
      /\ \E q \in RequestIds : HandedFromList(q))
       => creating' = creating]_vars

\* the entries the scan of this step's dispense visits and rejects: those
\* up to the first one that validate accepts
Scanned ==
  {i \in 1 .. Len(availableConnections) :
     \A j \in 1 .. i : availableConnections[j].connection \in invalid'}

\* C22: in an acquire on a pool with a validate function, every entry the
\* scan rejects has its connection passed to clientFactory.destroy, is no
\* longer listed after the step and is given to no request, and no request
\* ends the step with an error.
C22_RejectedEntriesRemoved ==
  [][(Acquire /\ ~draining /\ options.hasValidate)
       => /\ \A i \in Scanned :
                LET e == availableConnections[i]
                IN /\ destroyed'[e.connection] > destroyed[e.connection]
                   /\ e.id \notin Entries'
                   /\ \A q \in RequestIds :
                         requests'[q] # requests[q] => requests'[q].value # e.id
          /\ \A q \in RequestIds :
                requests'[q] # requests[q]
                  => requests'[q].state \notin {"error", "threw", "rejected"}]_vars

\* C23: at most one reaper timer is outstanding, removeIdleScheduled is true
\* exactly when one is, and a sweep leaves the reaper scheduled exactly when
\* it acts (refreshIdle) and entries remain listed after it.
C23_OneReaperTimer ==
  /\ [](removeIdleTimer \in {0, 1})
  /\ [](removeIdleScheduled <=> removeIdleTimer = 1)
  /\ [][\/ removeIdleScheduled'
              <=> (options.refreshIdle /\ Len(availableConnections') > 0)
        \/ ~RemoveIdle]_vars

\* a sweep has run with entries past their deadline and the reaper is
\* scheduled again over two listed entries
C23_Witness ==
  /\ options.refreshIdle
  /\ expiredUpTo > 0
  /\ removeIdleScheduled /\ removeIdleTimer = 1
  /\ Len(availableConnections) >= 2

\* C24: no connection made by the factory is passed to clientFactory.destroy
\* more than once.
C24_DestroyedOnce ==
  \A v \in Ids : objs[v] = "resource" => destroyed[v] <= 1

\* the connections of the listed entry that value is (none if it is not one)
ConnectionOf(value) ==
  {availableConnections[i].connection :
     i \in {j \in 1 .. Len(availableConnections) :
              availableConnections[j].id = value}}

\* a connection the factory made and nobody passed to clientFactory.destroy,
\* as the step leaves it
Live(v) == v \in Ids /\ objs'[v] = "resource" /\ destroyed'[v] = 0

\* C25: what a step gives to a request that keeps it is live: the
\* connection of the listed entry handed out, or the connection delivered
\* by the create callback.
C25_DeliveredIsLive ==
  [][\A q \in RequestIds :
        (requests[q].state # "holding" /\ requests'[q].state = "holding")
          => LET value == requests'[q].value
             IN /\ \A c \in ConnectionOf(value) : Live(c)
                /\ (value \notin Entries /\ objs[value] = "free"
                      /\ objs'[value] # "entry") => Live(value)]_vars

\* C26: once the pool is draining, drain's observer is signalled (as long as
\* the identities and the destroy calls of the bounds last), and it is never
\* signalled twice.
C26_DrainTerminates ==
  /\ draining ~> (drainCompleted > 0 \/ OutOfBudget)
  /\ [](drainCompleted <= 1)
====
